---- MODULE Spec2Model ----
(***************************************************************************)
(* flume-overwrite: a bounded flume channel whose OverwriteSender evicts   *)
(* the oldest queued values instead of waiting for room.                   *)
(*                                                                         *)
(* The channel (flume's Shared/Chan) is modelled by                        *)
(*   queue    the buffered messages, head first                            *)
(*   sending  the senders parked by a full queue, oldest first; the        *)
(*            message of a parked sender p is val[p]                       *)
(*   waiting  the receivers parked by an empty queue, oldest first         *)
(*   disconnected  flume's disconnected flag                               *)
(* Threads and tasks are processes with a program counter; every access of *)
(* the channel (len, try_recv, recv, recv_async, send, send_async) is one  *)
(* atomic step, since flume takes the channel lock for each.               *)
(***************************************************************************)
EXTENDS Integers, Sequences, FiniteSets

\* Largest capacity handed to bounded_overwrite.
MaxCap == 2
\* Number of send_overwrite / send_overwrite_async calls made in a run.
MaxSends == 3
\* Number of send_overwrite calls made in a run of the producers alone.
MaxRaceSends == 4

\* Threads holding an OverwriteSender (the original and its clones).
Producers == {"p1", "p2"}
\* Threads holding the Receiver returned by bounded_overwrite.
Consumers == {"c1", "c2"}
Procs == Producers \cup Consumers

VARIABLES
  cap,          \* the capacity given to bounded_overwrite
  queue,        \* Chan.queue
  sending,      \* Chan.sending: parked senders
  waiting,      \* Chan.waiting: parked receivers
  disconnected, \* Shared.disconnected
  alive,        \* the handles not yet dropped
  pc,           \* where each thread is
  val,          \* the value of a producer's call in progress (0: none)
  drained,      \* the local `drained` of a producer's call in progress
  q0,           \* the queue as it was when that call began (<<>>: none)
  hist,         \* one record per call, indexed by the value it sends
  enq,          \* the values in the order they entered the channel
  used,         \* the send variants called so far ("sync", "async")
  received      \* what each consumer has received, in order

loc == <<val, drained, q0>>

vars == <<cap, queue, sending, waiting, disconnected, alive, pc, loc,
          hist, enq, used, received>>

Min(a, b) == IF a <= b THEN a ELSE b
Max(a, b) == IF a >= b THEN a ELSE b

\* Sender::capacity(): Some(cap) for a channel made by flume::bounded(cap).
Capacity == cap

\* A sender count that misses the original handle.
SenderCountClonesOnly == Cardinality(alive \cap Producers) - 1

\* The live Sender handles: one in every live OverwriteSender.
SenderCount == Cardinality(alive \cap Producers)

\* A receiver count without the clones the OverwriteSenders hold.
ReceiverCountUsersOnly == Cardinality(alive \cap Consumers)

\* The live Receiver handles: the one bounded_overwrite returns and the clone
\* every live OverwriteSender holds.
ReceiverCount == Cardinality(alive \cap Consumers) + Cardinality(alive \cap Producers)

\* The loop condition off by one: it asks for room for two.
AtCapacityOffByOne(len, capacity) == len + 1 >= capacity

\* The loop condition asking for more than the capacity.
AtCapacityStrict(len, capacity) == len > capacity

\* The loop condition of both send variants.
AtCapacity(len, capacity) == len >= capacity

\* Chan::pull_pending(pull_extra): parked senders move their messages into the
\* queue, oldest first, while the queue holds fewer than cap (+1) messages.
PullN(extra) == Min(Len(sending), Max(0, (cap + extra) - Len(queue)))
Pulled(extra) ==
  queue \o [i \in 1..PullN(extra) |-> val[sending[i]]]
Rest(extra) == SubSeq(sending, PullN(extra) + 1, Len(sending))
\* The parked senders whose signal pull_pending fires: their send returns Ok.
Fired(extra) == {sending[i] : i \in 1..PullN(extra)}

\* A pop at the wrong end of the queue.
PopBack(q) == [item |-> q[Len(q)], rest |-> SubSeq(q, 1, Len(q) - 1)]

\* VecDeque::pop_front on a non-empty queue: the message taken and what stays.
PopFront(q) == [item |-> Head(q), rest |-> Tail(q)]

\* A push at the wrong end of the queue.
PushFront(q, x) == <<x>> \o q

\* VecDeque::push_back on the queue.
PushBack(q, x) == Append(q, x)

\* The calls of the producers in F return with status st (a producer of F
\* returns Ok(None) or Ok(Some(drained))); d gives their eviction lists.
Returned(h, F, st, d) ==
  [v \in DOMAIN h |->
     IF \E p \in F : val[p] = v
       THEN [h[v] EXCEPT !.st = st,
                         !.ev = d[CHOOSE p \in F : val[p] = v]]
       ELSE h[v]]

Init ==
  /\ cap \in 0..MaxCap
  /\ queue = <<>>
  /\ sending = <<>>
  /\ waiting = <<>>
  /\ disconnected = FALSE
  /\ alive = Procs
  /\ pc = [x \in Procs |-> "idle"]
  /\ val = [p \in Producers |-> 0]
  /\ drained = [p \in Producers |-> <<>>]
  /\ q0 = [p \in Producers |-> <<>>]
  /\ hist = <<>>
  /\ enq = <<>>
  /\ used = {}
  /\ received = [c \in Consumers |-> <<>>]

\* The record of a call: the handles live when it began; st becomes "ok" or
\* "err" when it returns, ev the eviction list it returns (<<>> for Ok(None)).
NewCall == [alive0 |-> alive, st |-> "run", ev |-> <<>>]

\* A producer calls send_overwrite(value) or send_overwrite_async(value), in a
\* run of at most n calls.
StartWithin(p, kind, n) ==
  /\ p \in alive
  /\ pc[p] = "idle"
  /\ Len(hist) < n
  /\ val' = [val EXCEPT ![p] = Len(hist) + 1]
  /\ drained' = [drained EXCEPT ![p] = <<>>]
  /\ q0' = [q0 EXCEPT ![p] = queue]
  /\ hist' = Append(hist, NewCall)
  /\ used' = used \cup {kind}
  /\ pc' = [pc EXCEPT ![p] = IF kind = "sync" THEN "s_check" ELSE "a_check"]
  /\ UNCHANGED <<cap, queue, sending, waiting, disconnected, alive, enq, received>>

Start(p, kind) == StartWithin(p, kind, MaxSends)

StartSync(p) == Start(p, "sync")

StartAsync(p) == Start(p, "async")

\* The producers' locals after p's `drained` became d and the calls of F
\* returned.
LocAfter(p, d, F) ==
  /\ val' = [x \in Producers |-> IF x \in F THEN 0 ELSE val[x]]
  /\ drained' = [x \in Producers |->
                   IF x \in F THEN <<>> ELSE IF x = p THEN d ELSE drained[x]]
  /\ q0' = [x \in Producers |-> IF x \in F THEN <<>> ELSE q0[x]]

\* The pcs after the calls of F returned.
PcReturn(F, upd) ==
  [x \in Procs |-> IF x \in F THEN "idle"
                   ELSE IF x \in DOMAIN upd THEN upd[x] ELSE pc[x]]

\* `while self.sender.len() >= capacity`: Shared::len() pulls pending senders
\* and reads the queue's length.
LenCheck(p) ==
  /\ pc[p] \in {"s_check", "a_check"}
  /\ LET q == Pulled(0)
         F == Fired(0)
         loop == AtCapacity(Len(q), Capacity)
         next == IF pc[p] = "s_check"
                   THEN (IF loop THEN "s_try" ELSE "s_send")
                   ELSE (IF loop THEN "a_recv" ELSE "a_send")
     IN /\ queue' = q
        /\ sending' = Rest(0)
        /\ hist' = Returned(hist, F, "ok", drained)
        /\ pc' = PcReturn(F, [x \in {p} |-> next])
        /\ LocAfter(p, drained[p], F)
  /\ UNCHANGED <<cap, used, waiting, disconnected, alive, enq, received>>

\* An eviction list built newest first.
PushDrainedFront(d, x) == <<x>> \o d

\* An eviction list that forgets what was popped.
PushDrainedDropped(d, x) == d

\* An eviction list that records every popped value twice.
PushDrainedTwice(d, x) == Append(Append(d, x), x)

\* `drained.push(old_value)`.
PushDrained(d, x) == Append(d, x)

\* `match self.receiver.try_recv()` in send_overwrite's loop. Shared::recv pulls
\* pending senders (one extra), pops the head, and otherwise reports
\* Disconnected or Empty.
SyncTryRecv(p) ==
  /\ pc[p] = "s_try"
  /\ LET q == Pulled(1)
         F == Fired(1)
     IN /\ sending' = Rest(1)
        /\ IF q # <<>>
             THEN \* Ok(old_value) => drained.push(old_value)
                  /\ queue' = PopFront(q).rest
                  /\ LocAfter(p, PushDrained(drained[p], PopFront(q).item), F)
                  /\ hist' = Returned(hist, F, "ok", drained)
                  /\ pc' = PcReturn(F, [x \in {p} |-> "s_check"])
             ELSE IF disconnected
               THEN \* Err(_) => return Err(SendError(value))
                    /\ queue' = q
                    /\ LocAfter(p, <<>>, {p})
                    /\ hist' = Returned(hist, {p}, "err", [x \in Producers |-> <<>>])
                    /\ pc' = PcReturn({p}, <<>>)
               ELSE \* Err(TryRecvError::Empty) => ()
                    /\ queue' = q
                    /\ pc' = [pc EXCEPT ![p] = "s_check"]
                    /\ UNCHANGED <<loc, hist>>
  /\ UNCHANGED <<cap, used, waiting, disconnected, alive, enq, received>>

\* A recv_async in the loop whose value is not pushed on `drained`.
AsyncRecvUnrecorded(p) ==
  /\ pc[p] = "a_recv"
  /\ LET q == Pulled(1)
         F == Fired(1)
     IN /\ sending' = Rest(1)
        /\ IF q # <<>>
             THEN /\ queue' = PopFront(q).rest
                  /\ LocAfter(p, drained[p], F)
                  /\ hist' = Returned(hist, F, "ok", drained)
                  /\ pc' = PcReturn(F, [x \in {p} |-> "a_check"])
                  /\ UNCHANGED waiting
             ELSE /\ queue' = q
                  /\ waiting' = Append(waiting, p)
                  /\ pc' = [pc EXCEPT ![p] = "a_wait"]
                  /\ UNCHANGED <<loc, hist>>
  /\ UNCHANGED <<cap, used, disconnected, alive, enq, received>>

\* `self.receiver.recv_async().await` in send_overwrite_async's loop: one poll of
\* the RecvFut. It pops the head, or fails on a disconnected channel (the
\* `if let Ok` then pushes nothing and the loop goes on), or parks the task.
AsyncRecv(p) ==
  /\ pc[p] = "a_recv"
  /\ LET q == Pulled(1)
         F == Fired(1)
     IN /\ sending' = Rest(1)
        /\ IF q # <<>>
             THEN /\ queue' = PopFront(q).rest
                  /\ LocAfter(p, PushDrained(drained[p], PopFront(q).item), F)
                  /\ hist' = Returned(hist, F, "ok", drained)
                  /\ pc' = PcReturn(F, [x \in {p} |-> "a_check"])
                  /\ UNCHANGED waiting
             ELSE IF disconnected
               THEN /\ queue' = q
                    /\ pc' = [pc EXCEPT ![p] = "a_check"]
                    /\ UNCHANGED <<loc, hist, waiting>>
               ELSE /\ queue' = q
                    /\ waiting' = Append(waiting, p)
                    /\ pc' = [pc EXCEPT ![p] = "a_wait"]
                    /\ UNCHANGED <<loc, hist>>
  /\ UNCHANGED <<cap, used, disconnected, alive, enq, received>>

\* Where a parked recv_async goes on when its waker is called: it polls again.
Woken(w) == IF w \in Consumers THEN "c_poll" ELSE "a_recv"

\* `self.sender.send(value)?` and `self.sender.send_async(value).await?`:
\* Shared::send fails on a disconnected channel, hands the message to the oldest
\* parked receiver, pushes it when the queue has room, and otherwise parks the
\* sender. A parked blocking receiver takes the message in its slot; a parked
\* recv_async is woken and the message is pushed for it to poll.
Send(p) ==
  /\ pc[p] \in {"s_send", "a_send"}
  /\ IF disconnected
       THEN /\ hist' = Returned(hist, {p}, "err", [x \in Producers |-> <<>>])
            /\ pc' = PcReturn({p}, <<>>)
            /\ LocAfter(p, <<>>, {p})
            /\ UNCHANGED <<queue, sending, waiting, enq, received>>
       ELSE IF waiting # <<>>
         THEN LET w == Head(waiting)
              IN /\ waiting' = Tail(waiting)
                 /\ IF pc[w] = "c_wait"
                      THEN /\ received' = [received EXCEPT ![w] = Append(@, val[p])]
                           /\ pc' = PcReturn({p}, [x \in {w} |-> "idle"])
                           /\ UNCHANGED queue
                      ELSE /\ queue' = PushBack(queue, val[p])
                           /\ pc' = PcReturn({p}, [x \in {w} |-> Woken(w)])
                           /\ UNCHANGED received
                 /\ hist' = Returned(hist, {p}, "ok", drained)
                 /\ LocAfter(p, <<>>, {p})
                 /\ enq' = Append(enq, val[p])
                 /\ UNCHANGED sending
         ELSE IF Len(queue) < cap
           THEN /\ queue' = PushBack(queue, val[p])
                /\ hist' = Returned(hist, {p}, "ok", drained)
                /\ pc' = PcReturn({p}, <<>>)
                /\ LocAfter(p, <<>>, {p})
                /\ enq' = Append(enq, val[p])
                /\ UNCHANGED <<sending, waiting, received>>
           ELSE /\ sending' = Append(sending, p)
                /\ pc' = [pc EXCEPT ![p] = IF pc[p] = "s_send" THEN "s_blocked"
                                                              ELSE "a_blocked"]
                /\ enq' = Append(enq, val[p])
                /\ UNCHANGED <<queue, waiting, received, hist, loc>>
  /\ UNCHANGED <<cap, used, disconnected, alive>>

\* A consumer's Receiver::try_recv() (block = FALSE) or Receiver::recv()
\* (block = TRUE).
ConsumerRecv(c, block) ==
  /\ c \in alive
  /\ pc[c] = "idle"
  /\ LET q == Pulled(1)
         F == Fired(1)
     IN /\ sending' = Rest(1)
        /\ hist' = Returned(hist, F, "ok", drained)
        /\ LocAfter(c, <<>>, F)
        /\ IF q # <<>>
             THEN /\ queue' = PopFront(q).rest
                  /\ received' = [received EXCEPT ![c] = Append(@, PopFront(q).item)]
                  /\ pc' = PcReturn(F, <<>>)
                  /\ UNCHANGED waiting
             ELSE /\ queue' = q
                  /\ UNCHANGED received
                  /\ IF block /\ ~disconnected
                       THEN /\ waiting' = Append(waiting, c)
                            /\ pc' = [pc EXCEPT ![c] = "c_wait"]
                       ELSE UNCHANGED <<waiting, pc>>
  /\ UNCHANGED <<cap, used, disconnected, alive, enq>>

ConsumerTryRecv(c) == ConsumerRecv(c, FALSE)

\* One poll of a consumer's Receiver::recv_async(): the first one, or the one
\* after its waker was called. It pops the head, fails on a disconnected
\* channel, or parks the task.
ConsumerRecvAsync(c) ==
  /\ c \in alive
  /\ pc[c] \in {"idle", "c_poll"}
  /\ LET q == Pulled(1)
         F == Fired(1)
     IN /\ sending' = Rest(1)
        /\ hist' = Returned(hist, F, "ok", drained)
        /\ LocAfter(c, <<>>, F)
        /\ IF q # <<>>
             THEN /\ queue' = PopFront(q).rest
                  /\ received' = [received EXCEPT ![c] = Append(@, PopFront(q).item)]
                  /\ pc' = PcReturn(F, [x \in {c} |-> "idle"])
                  /\ UNCHANGED waiting
             ELSE /\ queue' = q
                  /\ UNCHANGED received
                  /\ IF disconnected
                       THEN /\ pc' = [pc EXCEPT ![c] = "idle"]
                            /\ UNCHANGED waiting
                       ELSE /\ waiting' = Append(waiting, c)
                            /\ pc' = [pc EXCEPT ![c] = "c_await"]
  /\ UNCHANGED <<cap, used, disconnected, alive, enq>>

ConsumerBlockingRecv(c) == ConsumerRecv(c, TRUE)

\* Shared::disconnect_all(), run by the drop that takes the sender count or the
\* receiver count to zero: pending senders are pulled, every parked sender and
\* receiver is woken and finds the channel disconnected.
DisconnectAll ==
  LET F == Fired(0)
      G == {sending[i] : i \in 1..Len(sending)} \ F
      W == {waiting[i] : i \in 1..Len(waiting)}
  IN /\ disconnected' = TRUE
     /\ queue' = Pulled(0)
     /\ sending' = <<>>
     /\ waiting' = <<>>
     /\ hist' = Returned(Returned(hist, F, "ok", drained), G, "err",
                         [x \in Producers |-> <<>>])
     /\ LocAfter("none", <<>>, F \cup G)
     /\ pc' = [x \in Procs |->
                 IF x \in F \cup G THEN "idle"
                 ELSE IF x \in W THEN (IF pc[x] = "c_wait" THEN "idle" ELSE Woken(x))
                 ELSE pc[x]]

\* A handle is dropped by its idle owner: an OverwriteSender drops its Sender and
\* its Receiver clone, a consumer its Receiver.
Drop(x) ==
  /\ x \in alive
  /\ pc[x] = "idle"
  /\ alive' = alive \ {x}
  /\ IF ~disconnected /\ (SenderCount' = 0 \/ ReceiverCount' = 0)
       THEN DisconnectAll
       ELSE UNCHANGED <<queue, sending, waiting, disconnected, hist, loc, pc>>
  /\ UNCHANGED <<cap, used, enq, received>>

DropSender(p) == Drop(p)

DropReceiver(c) == Drop(c)

Next ==
  \/ \E p \in Producers : StartSync(p)
  \/ \E p \in Producers : StartAsync(p)
  \/ \E p \in Producers : LenCheck(p)
  \/ \E p \in Producers : SyncTryRecv(p)
  \/ \E p \in Producers : AsyncRecv(p)
  \/ \E p \in Producers : Send(p)
  \/ \E c \in Consumers : ConsumerTryRecv(c)
  \/ \E c \in Consumers : ConsumerBlockingRecv(c)
  \/ \E c \in Consumers : ConsumerRecvAsync(c)
  \/ \E p \in Producers : DropSender(p)
  \/ \E c \in Consumers : DropReceiver(c)

Spec == Init /\ [][Next]_vars

\* The runs in which no handle is dropped: any interleaving of the producers'
\* calls and the consumers' receives.
RunNext ==
  \/ \E p \in Producers : StartSync(p)
  \/ \E p \in Producers : StartAsync(p)
  \/ \E p \in Producers : LenCheck(p)
  \/ \E p \in Producers : SyncTryRecv(p)
  \/ \E p \in Producers : AsyncRecv(p)
  \/ \E p \in Producers : Send(p)
  \/ \E c \in Consumers : ConsumerTryRecv(c)
  \/ \E c \in Consumers : ConsumerBlockingRecv(c)

RunSpec == Init /\ [][RunNext]_vars

\* The consumer that receives in the runs with handle drops; the other consumer
\* only holds its Receiver until it drops it.
Reader == "c1"

\* The runs with handle drops.
LifeNext ==
  \/ \E p \in Producers : StartSync(p)
  \/ \E p \in Producers : StartAsync(p)
  \/ \E p \in Producers : LenCheck(p)
  \/ \E p \in Producers : SyncTryRecv(p)
  \/ \E p \in Producers : AsyncRecv(p)
  \/ \E p \in Producers : Send(p)
  \/ ConsumerTryRecv(Reader)
  \/ ConsumerBlockingRecv(Reader)
  \/ \E p \in Producers : DropSender(p)
  \/ \E c \in Consumers : DropReceiver(c)

LifeSpec == Init /\ [][LifeNext]_vars

\* The only producer of the single-producer runs.
Solo == "p1"

\* The runs of one producer against any interleaving of the consumers.
SoloNext ==
  \/ StartSync(Solo)
  \/ StartAsync(Solo)
  \/ LenCheck(Solo)
  \/ SyncTryRecv(Solo)
  \/ AsyncRecv(Solo)
  \/ Send(Solo)
  \/ \E c \in Consumers : ConsumerTryRecv(c)
  \/ \E c \in Consumers : ConsumerBlockingRecv(c)
  \/ \E c \in Consumers : ConsumerRecvAsync(c)

SoloSpec == Init /\ [][SoloNext]_vars

\* The runs without handle drops in which the consumers receive with try_recv
\* and recv_async.
AwaitNext ==
  \/ \E p \in Producers : StartSync(p)
  \/ \E p \in Producers : StartAsync(p)
  \/ \E p \in Producers : LenCheck(p)
  \/ \E p \in Producers : SyncTryRecv(p)
  \/ \E p \in Producers : AsyncRecv(p)
  \/ \E p \in Producers : Send(p)
  \/ \E c \in Consumers : ConsumerTryRecv(c)
  \/ \E c \in Consumers : ConsumerRecvAsync(c)

AwaitSpec == Init /\ [][AwaitNext]_vars

\* A producer calls send_overwrite in a run of the producers alone.
StartRace(p) == StartWithin(p, "sync", MaxRaceSends)

\* The runs of the two OverwriteSender clones calling send_overwrite with no
\* consumer receiving.
RaceNext ==
  \/ \E p \in Producers : StartRace(p)
  \/ \E p \in Producers : LenCheck(p)
  \/ \E p \in Producers : SyncTryRecv(p)
  \/ \E p \in Producers : Send(p)

RaceSpec == Init /\ [][RaceNext]_vars

\* No thread is inside a call.
AllIdle == \A x \in Procs : pc[x] = "idle"

\* The runs in which every call finishes before the next one starts: sends by
\* either producer, in either variant, and try_recv by the consumers.
SeqNext ==
  \/ \E p \in Producers : AllIdle /\ StartSync(p)
  \/ \E p \in Producers : AllIdle /\ StartAsync(p)
  \/ \E p \in Producers : LenCheck(p)
  \/ \E p \in Producers : SyncTryRecv(p)
  \/ \E p \in Producers : AsyncRecv(p)
  \/ \E p \in Producers : Send(p)
  \/ \E c \in Consumers : AllIdle /\ ConsumerTryRecv(c)

SeqSpec == Init /\ [][SeqNext]_vars

\* A thread inside send_overwrite keeps running, and an executor keeps polling
\* a task inside send_overwrite_async that is ready; nothing obliges a thread
\* to start a call, to receive or to drop a handle.
Fairness ==
  \A p \in Producers :
    /\ WF_vars(LenCheck(p))
    /\ WF_vars(SyncTryRecv(p))
    /\ WF_vars(AsyncRecv(p))
    /\ WF_vars(Send(p))

FairRunSpec == RunSpec /\ Fairness

FairSoloSpec == SoloSpec /\ Fairness

InSync(p) == pc[p] \in {"s_check", "s_try", "s_send", "s_blocked"}
InAsync(p) == pc[p] \in {"a_check", "a_recv", "a_wait", "a_send", "a_blocked"}

\* C3: every send_overwrite call returns, whatever the other producers and the
\* consumers do (stated here for the capacities >= 1, which leaves out the
\* capacity-0 loop of C5).
C3_SendOverwriteReturns ==
  \A p \in Producers : (cap >= 1 /\ InSync(p)) ~> (pc[p] = "idle")

\* C4: every send_overwrite_async call completes (capacities >= 1).
C4_SendOverwriteAsyncCompletes ==
  (cap >= 1 /\ InAsync(Solo)) ~> (pc[Solo] = "idle")

\* C5: on a queue of capacity 0 every send_overwrite call completes.
C5_ZeroCapacityCompletes ==
  (cap = 0 /\ InSync(Solo)) ~> (pc[Solo] = "idle")

(***************************************************************************)
(* Helpers of the properties.                                              *)
(***************************************************************************)
Range(q) == {q[i] : i \in DOMAIN q}

\* How often x occurs in the sequence q.
Occ(q, x) == Cardinality({i \in DOMAIN q : q[i] = x})

RECURSIVE Sum(_, _)
\* The sum of f over the finite set S.
Sum(f, S) ==
  IF S = {} THEN 0
  ELSE LET x == CHOOSE y \in S : TRUE IN f[x] + Sum(f, S \ {x})

\* The number of values reported in the eviction lists of all calls.
TotalEvicted == Sum([v \in DOMAIN hist |-> Len(hist[v].ev)], DOMAIN hist)

\* In how many places the value x is: the queue, what the consumers received,
\* the eviction lists returned.
Copies(x) ==
  Occ(queue, x)
  + Sum([c \in Consumers |-> Occ(received[c], x)], Consumers)
  + Sum([v \in DOMAIN hist |-> Occ(hist[v].ev, x)], DOMAIN hist)

\* The place of x in the order of entry into the channel.
EnqPos(x) == CHOOSE i \in DOMAIN enq : enq[i] = x

\* The step in which p's call returns.
Returns(p) == pc[p] # "idle" /\ pc'[p] = "idle"

ProducersIdle == \A p \in Producers : pc[p] = "idle"

NothingReceived == \A c \in Consumers : received[c] = <<>>

\* C1: after N > C send_overwrite calls made one after another with no receive
\* in between, the queue holds the last C values sent, in send order, and the
\* eviction lists of the N calls hold N - C values in all.
C1_LastCapacityValues ==
  (AllIdle /\ used = {"sync"} /\ NothingReceived /\ Len(hist) > cap)
    => /\ queue = [i \in 1..cap |-> Len(hist) - cap + i]
       /\ TotalEvicted = Len(hist) - cap

C1_Witness ==
  /\ AllIdle /\ used = {"sync"} /\ NothingReceived
  /\ cap = 1 /\ Len(hist) = 3 /\ queue = <<3>> /\ TotalEvicted = 2

\* C2: the eviction list a successful call returns is in the order in which its
\* values entered the channel, oldest first, and never holds the value the call
\* itself sent.
C2_EvictionOrder ==
  \A v \in DOMAIN hist :
    hist[v].st = "ok" =>
      LET e == hist[v].ev
      IN /\ \A i \in DOMAIN e : e[i] # v /\ e[i] \in Range(enq)
         /\ \A i, j \in DOMAIN e : i < j => EnqPos(e[i]) < EnqPos(e[j])

C2_Witness ==
  \E v \in DOMAIN hist : hist[v].st = "ok" /\ Len(hist[v].ev) >= 2

\* C6: once the producers' calls have returned, every value whose send
\* succeeded is in exactly one place: the queue, what one consumer received, or
\* one returned eviction list.
C6_ExactDrainReporting ==
  ProducersIdle =>
    \A v \in DOMAIN hist : Copies(v) = (IF hist[v].st = "ok" THEN 1 ELSE 0)

C6_Witness ==
  /\ AllIdle /\ Len(hist) = 3
  /\ \E v \in DOMAIN hist : Occ(queue, v) = 1
  /\ \E v \in DOMAIN hist : \E c \in Consumers : Occ(received[c], v) = 1
  /\ \E v, w \in DOMAIN hist : Occ(hist[w].ev, v) = 1

\* The call sending v began after every consumer handle had been dropped.
AfterConsumersDropped(v) == hist[v].alive0 \cap Consumers = {}

\* C7 as stated: a call made after all consumer handles were dropped fails with
\* Disconnected.
C7_FailsAfterConsumersDropped ==
  \A v \in DOMAIN hist :
    (AfterConsumersDropped(v) /\ hist[v].st # "run") => hist[v].st = "err"

\* C7 amended: a call made after all the consumers' handles were dropped does
\* not fail; when it returns it returns Ok and its value has entered the
\* channel, the caller's own Receiver clone keeping the channel connected.
C7_SucceedsAfterConsumersDropped ==
  \A v \in DOMAIN hist :
    (AfterConsumersDropped(v) /\ hist[v].st # "run")
      => hist[v].st = "ok" /\ v \in Range(enq)

C7_Witness ==
  \E v \in DOMAIN hist :
    AfterConsumersDropped(v) /\ hist[v].st = "ok" /\ v \in Range(queue)

\* The handle p was the only live handle when its call in progress began.
LastHandle(p) == val[p] # 0 /\ hist[val[p]].alive0 = {p}

\* C8: while an OverwriteSender is alive the channel is not disconnected and no
\* call of it fails, whichever other handles were dropped and in which order;
\* and a send_overwrite by the last live handle on a queue of capacity >= 1
\* goes through: every pop of its loop finds a value and its push never parks.
C8_SenderKeepsChannelConnected ==
  /\ (alive \cap Producers # {}) => ~disconnected
  /\ \A v \in DOMAIN hist : hist[v].st # "err"
  /\ \A p \in Producers :
       (cap >= 1 /\ LastHandle(p))
         => /\ pc[p] # "s_blocked"
            /\ pc[p] = "s_try" => queue # <<>>

\* A send_overwrite made by the last live handle on a queue of capacity >= 1
\* has succeeded.
C8_Witness ==
  /\ cap >= 1 /\ used = {"sync"}
  /\ \E v \in DOMAIN hist :
       /\ Cardinality(hist[v].alive0) = 1
       /\ hist[v].alive0 \subseteq Producers
       /\ hist[v].st = "ok"
       /\ queue # <<>> /\ queue[Len(queue)] = v

\* C9: a call that finds fewer values queued than the capacity, with nothing
\* else running, returns None and leaves the queue as it was with the new value
\* appended.
C9_UnderCapacity ==
  [][\A p \in Producers :
       (Returns(p) /\ Len(q0[p]) < cap)
         => /\ hist'[val[p]].st = "ok"
            /\ hist'[val[p]].ev = <<>>
            /\ queue' = Append(q0[p], val[p])]_vars

\* Both variants were called, nothing was received, and the last call found one
\* value queued on a queue of capacity 2.
C9_Witness ==
  /\ AllIdle /\ NothingReceived /\ used = {"sync", "async"}
  /\ cap = 2 /\ Len(hist) = 2 /\ queue = <<1, 2>>
  /\ hist[2].st = "ok" /\ hist[2].ev = <<>>

\* C10: a call that finds the queue exactly full (capacity >= 1), with nothing
\* else running, evicts the oldest value and only it, and leaves the rest of the
\* queue followed by the new value.
C10_AtCapacity ==
  [][\A p \in Producers :
       (Returns(p) /\ cap >= 1 /\ Len(q0[p]) = cap)
         => /\ hist'[val[p]].st = "ok"
            /\ hist'[val[p]].ev = <<Head(q0[p])>>
            /\ queue' = Append(Tail(q0[p]), val[p])]_vars

\* Nothing was received and the third call found <<1, 2>> on a queue of
\* capacity 2.
C10_Witness ==
  /\ AllIdle /\ NothingReceived
  /\ cap = 2 /\ Len(hist) = 3 /\ queue = <<2, 3>>
  /\ hist[3].st = "ok" /\ hist[3].ev = <<1>>

(***************************************************************************)
(* The two variants as functions of a quiescent channel (nothing parked,   *)
(* nothing else running), for the comparison of C11.                       *)
(***************************************************************************)
RECURSIVE SyncLoop(_, _, _)
\* send_overwrite(v) run to its end on the queue q with `drained` = d: the loop
\* pops heads while len() >= capacity (a try_recv that finds nothing changes
\* nothing, so the loop spins), then send pushes v.
SyncLoop(q, d, v) ==
  IF AtCapacity(Len(q), Capacity)
    THEN IF q # <<>>
           THEN SyncLoop(PopFront(q).rest, PushDrained(d, PopFront(q).item), v)
           ELSE [st |-> "spin", ev |-> d, queue |-> q]
    ELSE [st |-> "ok", ev |-> d, queue |-> PushBack(q, v)]

SyncOutcome(q, v) == SyncLoop(q, <<>>, v)

RECURSIVE AsyncLoop(_, _, _)
\* send_overwrite_async(v) run to its end on the queue q with `drained` = d: the
\* loop awaits recv_async while len() >= capacity (on an empty queue the task
\* parks), then send_async pushes v.
AsyncLoop(q, d, v) ==
  IF AtCapacity(Len(q), Capacity)
    THEN IF q # <<>>
           THEN AsyncLoop(PopFront(q).rest, PushDrained(d, PopFront(q).item), v)
           ELSE [st |-> "parked", ev |-> d, queue |-> q]
    ELSE [st |-> "ok", ev |-> d, queue |-> PushBack(q, v)]

AsyncOutcome(q, v) == AsyncLoop(q, <<>>, v)

\* What the other variant returns and leaves when it is called in p's place.
OtherVariant(p) ==
  IF InSync(p) THEN AsyncOutcome(q0[p], val[p]) ELSE SyncOutcome(q0[p], val[p])

\* C11: with every call finishing before the next starts on a queue of
\* capacity >= 1, a call returns what the other variant returns from the same
\* queue and leaves the queue the other variant leaves.
C11_VariantsAgree ==
  [][\A p \in Producers :
       (Returns(p) /\ cap >= 1)
         => /\ OtherVariant(p).st = "ok"
            /\ hist'[val[p]].st = "ok"
            /\ hist'[val[p]].ev = OtherVariant(p).ev
            /\ queue' = OtherVariant(p).queue]_vars

\* Both variants were called on a full queue of capacity 1 and each evicted the
\* value before its own.
C11_Witness ==
  /\ AllIdle /\ NothingReceived /\ used = {"sync", "async"}
  /\ cap = 1 /\ Len(hist) = 3 /\ queue = <<3>>
  /\ hist[2].ev = <<1>> /\ hist[3].ev = <<2>>

\* C13: the queue never holds more values than the capacity given to
\* bounded_overwrite.
C13_BoundedMemory == Len(queue) <= cap

\* C14: with one producer on a queue of capacity >= 1, whatever the consumers
\* do, a send_overwrite that has left its loop finds fewer values queued than
\* the capacity, and its push never parks.
C14_PushFindsRoom ==
  cap >= 1 =>
    /\ pc[Solo] = "s_send" => Len(queue) < cap
    /\ pc[Solo] # "s_blocked"

\* A send_overwrite is about to push on a queue of capacity 2 after it evicted
\* one value and a consumer received the other.
C14_Witness ==
  /\ cap = 2 /\ pc[Solo] = "s_send" /\ drained[Solo] = <<1>>
  /\ queue = <<>>
  /\ \E c \in Consumers : received[c] # <<>>

\* C15: with one producer and concurrent consumers, every value send_overwrite
\* removes is removed when the queue still holds at least capacity values; a
\* slot freed by a consumer after the occupancy check is noticed and nothing is
\* evicted for it.
C15_NoOverEviction ==
  [][(pc[Solo] = "s_try" /\ Len(drained'[Solo]) > Len(drained[Solo]))
       => AtCapacity(Len(queue), Capacity)]_vars

\* C16: with one producer calling send_overwrite_async on a queue of capacity
\* >= 1, whatever the consumers do, no call evicts more than one value: the
\* `drained` of a call in progress and every returned eviction list hold at
\* most one value.
C16_AsyncEvictsAtMostOne ==
  (cap >= 1 /\ used = {"async"})
    => /\ Len(drained[Solo]) <= 1
       /\ \A v \in DOMAIN hist : Len(hist[v].ev) <= 1

\* A send_overwrite_async over-evicted: a consumer received 1 from the full
\* queue <<1, 2>> after the call's occupancy check, and the call evicted 2.
C16_Witness ==
  /\ cap = 2 /\ used = {"async"} /\ AllIdle
  /\ Len(hist) = 3 /\ hist[3].st = "ok" /\ hist[3].ev = <<2>>
  /\ \E c \in Consumers : received[c] = <<1>>
  /\ queue = <<3>>

\* In how many calls in progress the value x sits in the local `drained`.
InFlight(x) == Sum([p \in Producers |-> Occ(drained[p], x)], Producers)

\* C17: two clones calling send_overwrite concurrently with no consumer, on a
\* queue of capacity >= 2, may both evict before either pushes, but the queue
\* never holds more than the capacity and no removed value is lost: every
\* value that entered the queue is in the queue, in the `drained` of a call in
\* progress or in a returned eviction list, in exactly one of them; once both
\* calls have returned every removed value is in a returned eviction list.
C17_RaceKeepsBoundAndValues ==
  cap >= 2 =>
    /\ Len(queue) <= cap
    /\ \A v \in DOMAIN hist :
         hist[v].st = "ok" => Copies(v) + InFlight(v) = 1
    /\ ProducersIdle =>
         \A v \in DOMAIN hist :
           (hist[v].st = "ok" /\ v \notin Range(queue))
             => \E w \in DOMAIN hist : v \in Range(hist[w].ev)

\* Both clones found the queue of capacity 2 full, each evicted one value and
\* neither has pushed: the queue is empty, below capacity - 1.
C17_Witness ==
  /\ cap = 2 /\ queue = <<>> /\ NothingReceived
  /\ \A p \in Producers :
       pc[p] \in {"s_check", "s_send"} /\ Len(drained[p]) = 1

\* The values that left the channel in this step: received by a consumer or
\* pushed on the producer's `drained`.
TakenNow ==
  {received'[c][Len(received'[c])] :
     c \in {d \in Consumers : Len(received'[d]) > Len(received[d])}}
  \cup {drained'[p][Len(drained'[p])] :
          p \in {r \in Producers : Len(drained'[r]) > Len(drained[r])}}

\* Every consumer has received its values in send order.
ReceivedInOrder ==
  \A c \in Consumers :
    \A i, j \in DOMAIN received[c] : i < j => received[c][i] < received[c][j]

\* C18: with one producer and any number of concurrent consumers, every
\* consumer receives its values in send order, and when a value is evicted or
\* received every value still in the queue was sent after it.
C18_FifoHead ==
  [][ReceivedInOrder'
     /\ \A x \in TakenNow : \A k \in DOMAIN queue' : queue'[k] > x]_vars
====
